---- MODULE Spec2Model ----
(***************************************************************************)
(* A model of scrape_weather.py: the driver (__main__), the location       *)
(* processor (scrape_and_save) and the three site extractors, run as a     *)
(* sequence of processes over one ./weather directory tree.                *)
(***************************************************************************)
EXTENDS Integers, Sequences, FiniteSets, TLC

\* ------------------------------------------------------------------ bounds
MaxRuns == 2        \* number of successive runs of the script
MaxWidth == 3       \* image widths are 1..MaxWidth
MaxHeight == 2      \* image heights are 1..MaxHeight

\* ------------------------------------------------------- program constants
image_spacing == 100
wait_timeout == 10

FILE_DIR == "./weather"

\* WebDriverWait polls every half second: the clock of the wait counts polls
WaitTicks == wait_timeout * 2

Widths == 1..MaxWidth
Heights == 1..MaxHeight

\* --------------------------------------------------------------- inputs
U_yr == "https://www.yr.no/en/graph/x"
U_ecmwf == "https://www.shmu.sk/?page=1&mgram10"
U_aladin == "https://www.shmu.sk/aladin"
U_mb1 == "https://www.meteoblue.com/a"
U_mb2 == "https://www.meteoblue.com/b"
U_unknown == "https://example.com/"
U_mixed == "https://www.yr.no/?ref=meteoblue.com"
U_yr_mgram == "https://www.yr.no/mgram10"
U_shmu_yr == "https://www.shmu.sk/yr.no"

\* The parsed contents of weather_config.yml the runs are tried on
Configs ==
    { << [name |-> "a", urls |-> <<U_yr, U_ecmwf>>] >>,
      << [name |-> "a", urls |-> <<U_mb1, U_mb2>>] >>,
      << [name |-> "a", urls |-> <<U_unknown, U_yr>>],
         [name |-> "b", urls |-> <<U_aladin, U_unknown>>] >>,
      << [name |-> "a", urls |-> <<U_unknown>>],
         [name |-> "b", urls |-> <<U_yr>>] >>,
      << [name |-> "a", urls |-> <<U_yr>>], [name |-> "b"] >>,
      << [urls |-> <<U_yr>>] >>,
      << [name |-> "a", urls |-> <<U_yr>>],
         [name |-> "a", urls |-> <<U_aladin>>] >>,
      << [name |-> "b", urls |-> <<U_mixed, U_yr_mgram, U_shmu_yr>>] >>,
      << [name |-> "a", urls |-> <<U_yr, U_aladin, U_yr>>] >>,
      << [name |-> "b", urls |-> << >>] >>,
      << [name |-> "a", urls |-> <<U_yr>>],
         [name |-> "b", urls |-> <<U_aladin, U_mb1, U_yr>>] >>,
      << >> }

\* The class attribute of the image_lazyload element when a poll finds it
PageClasses == {"image_lazyload", "image_lazyload loaded"}

VARIABLES
    run,             \* number of the running (or last) process
    pc,              \* position of the process
    error,           \* the unhandled exception that ended the process
    locations,       \* the loaded configuration
    weather_exists,  \* whether ./weather exists
    dirs,            \* ./weather: directory name -> (file name -> content)
    browser,         \* the browser session: "none", "running", "quit"
    i,               \* index of the location being processed
    j,               \* index of the URL being processed
    scraped_images,  \* scrape_and_save's list of written file names
    stderr,          \* the warnings written to sys.stderr by this process
    navigated,       \* history: the browser.get calls of this process
    fetched,         \* history: the urlopen calls of this process
    mb,              \* scrape_meteoblue's local state
    hist,            \* history: per directory of this run, what was scraped
    removed          \* history: directory names the reset of this run deleted

vars == << run, pc, error, locations, weather_exists, dirs, browser, i, j,
           scraped_images, stderr, navigated, fetched, mb, hist, removed >>

\* ------------------------------------------------------------- helpers
EmptyMap == [x \in {} |-> 0]

Put(m, k, v) == [x \in DOMAIN m \cup {k} |-> IF x = k THEN v ELSE m[x]]

\* Python's `p in s` on strings
Contains(s, p) ==
    \E a \in 1..(Len(s) - Len(p) + 1) : SubSeq(s, a, a + Len(p) - 1) = p

mb_idle == [cookie |-> "none", elapsed |-> 0, seen |-> "none"]

\* ------------------------------------------------- scrape_and_save: dispatch
\* The chain with the yr.no test first and mgram10 tested for every site
Branch_YrFirst(url) ==
    IF Contains(url, "yr.no")
    THEN [site |-> "yr",
          file_name |-> IF Contains(url, "mgram10") THEN "shmu_ecmwf" ELSE "yr"]
    ELSE IF Contains(url, "meteoblue.com")
    THEN [site |-> "meteoblue", file_name |-> "meteoblue"]
    ELSE IF Contains(url, "shmu.sk")
    THEN [site |-> "shmu",
          file_name |-> IF Contains(url, "mgram10") THEN "shmu_ecmwf" ELSE "shmu_aladin"]
    ELSE [site |-> "unknown", file_name |-> ""]

\* The branch of the if/elif chain of lines 91-105 a URL takes: the extractor
\* it calls and the file name it derives
Branch(url) ==
    IF Contains(url, "meteoblue.com")
    THEN [site |-> "meteoblue", file_name |-> "meteoblue"]
    ELSE IF Contains(url, "yr.no")
    THEN [site |-> "yr", file_name |-> "yr"]
    ELSE IF Contains(url, "shmu.sk")
    THEN [site |-> "shmu",
          file_name |-> IF Contains(url, "mgram10") THEN "shmu_ecmwf" ELSE "shmu_aladin"]
    ELSE [site |-> "unknown", file_name |-> ""]

Dispatch(url) == Branch(url).site

\* Line 107, without the directory
FileName(url) == Branch(url).file_name \o ".png"

\* ------------------------------------------------ scrape_and_save: composite
RECURSIVE SumHeights(_)
SumHeights(images) ==
    IF images = << >> THEN 0
    ELSE Head(images).height + SumHeights(Tail(images))

max_width(images) ==
    CHOOSE w \in {images[k].width : k \in 1..Len(images)} :
        \A k \in 1..Len(images) : images[k].width <= w

total_height(images) == SumHeights(images)

\* Spacing between the images only, none after the last
CanvasHeight_NoTrailingSpacing(images) ==
    total_height(images) + image_spacing * (Len(images) - 1)

CanvasHeight(images) == total_height(images) + image_spacing * Len(images)

horizontal_offset(images, k) == (max_width(images) - images[k].width) \div 2

\* vertical_offset when the paste loop reaches image k
RECURSIVE vertical_offset(_, _)
vertical_offset(images, k) ==
    IF k = 1 THEN 0
    ELSE vertical_offset(images, k - 1) + images[k - 1].height + image_spacing

combined_image(images) ==
    [ kind   |-> "composite",
      run    |-> run,
      width  |-> max_width(images),
      height |-> CanvasHeight(images),
      pastes |-> [k \in 1..Len(images) |->
                    [ image |-> images[k],
                      left  |-> horizontal_offset(images, k),
                      top   |-> vertical_offset(images, k) ]] ]

\* ------------------------------------------------------------ the process
Abort(e) == pc' = "aborted" /\ error' = e

\* The exception caught around scrape_and_save, the loop going on
ExtractorFails_CaughtPerLocation(e) ==
    /\ error' = e
    /\ pc' = "loop"
    /\ i' = i + 1
    /\ UNCHANGED << dirs, j, scraped_images, hist, stderr >>

\* An exception raised inside an extractor: nothing catches it
ExtractorFails(e) ==
    /\ Abort(e)
    /\ UNCHANGED << dirs, i, j, scraped_images, hist, stderr >>

\* The bytes an extractor returns, as the image they decode to
NewImage(w, h) ==
    [kind |-> "image", run |-> run, loc |-> i, url |-> j, width |-> w, height |-> h]

\* Lines 107-112: write the image under the derived name, remember the name
SaveImage(image) ==
    LET name == locations[i].name
        file_name == FileName(locations[i].urls[j])
    IN  /\ dirs' = [dirs EXCEPT ![name] = Put(@, file_name, image)]
        /\ scraped_images' = Append(scraped_images, file_name)
        /\ hist' = [hist EXCEPT ![name].returned =
                       Append(@, [url |-> j, file |-> file_name, image |-> image])]
        /\ j' = j + 1
        /\ pc' = "urls"
        /\ UNCHANGED << error, i, stderr >>

\* Line 135: yaml.safe_load(open('weather_config.yml'))
LoadConfig ==
    /\ pc = "start"
    /\ \/ /\ \E e \in {"FileNotFoundError", "YAMLError"} : Abort(e)
          /\ UNCHANGED locations
       \/ /\ \E c \in Configs : locations' = c
          /\ pc' = "reset"
          /\ UNCHANGED error
    /\ UNCHANGED << run, weather_exists, dirs, browser, i, j, scraped_images,
                    stderr, navigated, fetched, mb, hist, removed >>

\* makedirs with exist_ok and no rmtree
ResetTree_Keep(tree) == tree

\* What ./weather holds after rmtree and makedirs
ResetTree(tree) == EmptyMap

\* Lines 138-140
ResetOutputDir ==
    /\ pc = "reset"
    /\ removed' = IF weather_exists THEN DOMAIN dirs ELSE {}
    /\ dirs' = ResetTree(dirs)
    /\ weather_exists' = TRUE
    /\ hist' = EmptyMap
    /\ pc' = "browser"
    /\ UNCHANGED << run, error, locations, browser, i, j, scraped_images,
                    stderr, navigated, fetched, mb >>

\* Lines 143-145
StartBrowser ==
    /\ pc = "browser"
    /\ browser' = "running"
    /\ i' = 1
    /\ pc' = "loop"
    /\ UNCHANGED << run, error, locations, weather_exists, dirs, j,
                    scraped_images, stderr, navigated, fetched, mb, hist, removed >>

\* Lines 147-148 and 85-89: the next location, its directory
BeginLocation ==
    /\ pc = "loop"
    /\ i <= Len(locations)
    /\ LET location == locations[i] IN
       IF ~ ({"name", "urls"} \subseteq DOMAIN location)
       THEN /\ Abort("KeyError")
            /\ UNCHANGED << dirs, j, scraped_images, hist >>
       ELSE IF location.name \in DOMAIN dirs
       THEN /\ Abort("FileExistsError")
            /\ UNCHANGED << dirs, j, scraped_images, hist >>
       ELSE /\ dirs' = Put(dirs, location.name, EmptyMap)
            /\ hist' = Put(hist, location.name,
                           [run |-> run, loc |-> i, returned |-> << >>])
            /\ scraped_images' = << >>
            /\ j' = 1
            /\ pc' = "urls"
            /\ UNCHANGED error
    /\ UNCHANGED << run, locations, weather_exists, browser, i, stderr,
                    navigated, fetched, mb, removed >>

\* Lines 103-105: no branch matches
SkipUnknown ==
    /\ pc = "urls"
    /\ j <= Len(locations[i].urls)
    /\ Dispatch(locations[i].urls[j]) = "unknown"
    /\ stderr' = Append(stderr, locations[i].urls[j])
    /\ j' = j + 1
    /\ UNCHANGED << run, pc, error, locations, weather_exists, dirs, browser, i,
                    scraped_images, navigated, fetched, mb, hist, removed >>

\* Lines 95-101 with scrape_yr / scrape_shmu (65-78), then 107-112
ScrapeScreenshot ==
    /\ pc = "urls"
    /\ j <= Len(locations[i].urls)
    /\ Dispatch(locations[i].urls[j]) \in {"yr", "shmu"}
    /\ navigated' = Append(navigated,
            [loc |-> i, url |-> j, site |-> Dispatch(locations[i].urls[j])])
    /\ \/ ExtractorFails("NoSuchElementException")
       \/ \E w \in Widths, h \in Heights : SaveImage(NewImage(w, h))
    /\ UNCHANGED << run, locations, weather_exists, browser, fetched, mb, removed >>

\* Lines 91-92 and 38-55: navigate, accept the cookies if asked, start the wait
MbGet ==
    /\ pc = "urls"
    /\ j <= Len(locations[i].urls)
    /\ Dispatch(locations[i].urls[j]) = "meteoblue"
    /\ navigated' = Append(navigated, [loc |-> i, url |-> j, site |-> "meteoblue"])
    /\ \E c \in {"absent", "clicked"} :
          mb' = [cookie |-> c, elapsed |-> 0, seen |-> "none"]
    /\ pc' = "mb_wait"
    /\ UNCHANGED << run, error, locations, weather_exists, dirs, browser, i, j,
                    scraped_images, stderr, fetched, hist, removed >>

\* The condition testing the locator's class instead of css_class
Element_has_css_class_Locator(class) == Contains(class, "image_lazyload")

\* Element_has_css_class.__call__ on an element that was found
Element_has_css_class(class) == Contains(class, "loaded")

\* Line 56: one poll of wait.until. A poll that does not find the element
\* raises NoSuchElementException, which WebDriverWait ignores.
MbPoll ==
    /\ pc = "mb_wait"
    /\ \E found \in BOOLEAN, class \in PageClasses :
          IF found /\ Element_has_css_class(class)
          THEN /\ mb' = [mb EXCEPT !.seen = class]
               /\ pc' = "mb_fetch"
               /\ UNCHANGED error
          ELSE /\ mb' = [mb EXCEPT !.elapsed = @ + 1,
                                   !.seen = IF found THEN class ELSE "none"]
               /\ IF mb.elapsed + 1 > WaitTicks
                  THEN Abort("TimeoutException")
                  ELSE UNCHANGED << pc, error >>
    /\ UNCHANGED << run, locations, weather_exists, dirs, browser, i, j,
                    scraped_images, stderr, navigated, fetched, hist, removed >>

\* Lines 58-62, then 93 and 107-112
MbFetch ==
    /\ pc = "mb_fetch"
    /\ mb' = mb_idle
    /\ \/ /\ ExtractorFails("NoSuchElementException")
          /\ UNCHANGED fetched
       \/ /\ fetched' = Append(fetched, [loc |-> i, url |-> j, cookie |-> mb.cookie])
          /\ \/ ExtractorFails("URLError")
             \/ \E w \in Widths, h \in Heights : SaveImage(NewImage(w, h))
    /\ UNCHANGED << run, locations, weather_exists, browser, navigated, removed >>

\* Lines 115-130: open the written files, build and save the composite
Composite ==
    /\ pc = "urls"
    /\ j > Len(locations[i].urls)
    /\ LET name == locations[i].name
           images == [k \in 1..Len(scraped_images) |-> dirs[name][scraped_images[k]]]
       IN  IF images = << >>
           THEN /\ Abort("ValueError")
                /\ UNCHANGED << dirs, i >>
           ELSE /\ dirs' = [dirs EXCEPT ![name] = Put(@, "all.png", combined_image(images))]
                /\ i' = i + 1
                /\ pc' = "loop"
                /\ UNCHANGED error
    /\ UNCHANGED << run, locations, weather_exists, browser, j, scraped_images,
                    stderr, navigated, fetched, mb, hist, removed >>

\* Line 151
Quit ==
    /\ pc = "loop"
    /\ i > Len(locations)
    /\ browser' = "quit"
    /\ pc' = "done"
    /\ UNCHANGED << run, error, locations, weather_exists, dirs, i, j,
                    scraped_images, stderr, navigated, fetched, mb, hist, removed >>

\* The script is run again: a new process over the same directory tree
NewRun ==
    /\ pc \in {"done", "aborted"}
    /\ run < MaxRuns
    /\ run' = run + 1
    /\ pc' = "start"
    /\ error' = "none"
    /\ locations' = << >>
    /\ browser' = "none"
    /\ i' = 0
    /\ j' = 0
    /\ scraped_images' = << >>
    /\ stderr' = << >>
    /\ navigated' = << >>
    /\ fetched' = << >>
    /\ mb' = mb_idle
    /\ removed' = {}
    /\ UNCHANGED << weather_exists, dirs, hist >>

Init ==
    /\ run = 1
    /\ pc = "start"
    /\ error = "none"
    /\ locations = << >>
    /\ weather_exists = FALSE
    /\ dirs = EmptyMap
    /\ browser = "none"
    /\ i = 0
    /\ j = 0
    /\ scraped_images = << >>
    /\ stderr = << >>
    /\ navigated = << >>
    /\ fetched = << >>
    /\ mb = mb_idle
    /\ hist = EmptyMap
    /\ removed = {}

Next ==
    \/ LoadConfig
    \/ ResetOutputDir
    \/ StartBrowser
    \/ BeginLocation
    \/ SkipUnknown
    \/ ScrapeScreenshot
    \/ MbGet
    \/ MbPoll
    \/ MbFetch
    \/ Composite
    \/ Quit
    \/ NewRun

Spec == Init /\ [][Next]_vars

\* ================================================================ claims
\* ------------------------------------------------------- shared vocabulary
ConfigErrors == {"FileNotFoundError", "YAMLError"}

ExtractorErrors == {"NoSuchElementException", "TimeoutException", "URLError"}

\* The running process got past the reset of ./weather and the browser start
ReachedProcessing ==
    \/ pc \in {"loop", "urls", "mb_wait", "mb_fetch", "done"}
    \/ pc = "aborted" /\ error \notin ConfigErrors

\* Directory d was made by scrape_and_save in the running process
ThisRun(d) == d \in DOMAIN hist /\ hist[d].run = run

\* scrape_and_save made d in the running process and completed
Completed(d) == ThisRun(d) /\ "all.png" \in DOMAIN dirs[d]

UrlsOf(d) == locations[hist[d].loc].urls

AllKnown(urls) == \A k \in 1..Len(urls) : Dispatch(urls[k]) # "unknown"

HasUnknown(urls) == \E k \in 1..Len(urls) : Dispatch(urls[k]) = "unknown"

RECURSIVE CountUnknown(_)
CountUnknown(urls) ==
    IF urls = << >> THEN 0
    ELSE (IF Dispatch(Head(urls)) = "unknown" THEN 1 ELSE 0) + CountUnknown(Tail(urls))

\* The unknown URLs of a configuration whose entries all have their fields
RECURSIVE CountUnknownIn(_)
CountUnknownIn(config) ==
    IF config = << >> THEN 0
    ELSE CountUnknown(Head(config).urls) + CountUnknownIn(Tail(config))

\* The image files of d, as they are on disk, in the order they were scraped
SourceImages(d) ==
    [k \in 1..Len(hist[d].returned) |-> dirs[d][hist[d].returned[k].file]]

\* The images the extractors returned for d, in the order they were scraped
ReturnedImages(d) ==
    [k \in 1..Len(hist[d].returned) |-> hist[d].returned[k].image]

RECURSIVE HeightOfFirst(_, _)
HeightOfFirst(images, n) ==
    IF n = 0 THEN 0 ELSE HeightOfFirst(images, n - 1) + images[n].height

Widest(images) ==
    CHOOSE w \in 0..MaxWidth :
        /\ \A k \in 1..Len(images) : images[k].width <= w
        /\ \E k \in 1..Len(images) : images[k].width = w

Malformed(config) ==
    \E k \in 1..Len(config) : ~ ({"name", "urls"} \subseteq DOMAIN config[k])

\* ---------------------------------------------------------------------- C1
\* C1: a completed location whose N >= 1 URLs are all known has exactly N
\* site image files plus all.png in its directory, N + 1 files, also when two
\* of its URLs derive the same file name.
C1_ExactlyNPlusOneFiles ==
    \A d \in DOMAIN dirs :
        (Completed(d) /\ Len(UrlsOf(d)) >= 1 /\ AllKnown(UrlsOf(d)))
            => Cardinality(DOMAIN dirs[d]) = Len(UrlsOf(d)) + 1

\* ---------------------------------------------------------------------- C2
\* C2: an unknown URL is never fatal: each one gives one warning and no image
\* file, the URLs after it are processed, and the location completes with its
\* composite, also when every URL of the location is unknown; the driver then
\* goes on to the next location.
C2_UnknownUrlNeverFatal ==
    /\ pc = "done" =>
          /\ Len(stderr) = CountUnknownIn(locations)
          /\ \A d \in DOMAIN dirs : Completed(d)
    /\ \A d \in DOMAIN dirs : ThisRun(d) =>
          \A f \in DOMAIN dirs[d] :
              dirs[d][f].kind = "image" => Dispatch(UrlsOf(d)[dirs[d][f].url]) # "unknown"
    /\ (pc = "aborted" /\ error = "ValueError") => ~ HasUnknown(locations[i].urls)

\* ---------------------------------------------------------------------- C3
\* C3: a run that started the browser session has shut it down when it ends,
\* on every exit path, including the runs a failing location ends.
C3_BrowserAlwaysQuit ==
    pc \in {"done", "aborted"} => browser # "running"

\* ---------------------------------------------------------------------- C4
\* C4: in the composite of a completed location the k-th paste is the image
\* scraped from the k-th known URL, at top offset sum over j < k of
\* (height_j + 100) and left offset (max_width - width_k) \div 2.
C4_PasteOrderAndOffsets ==
    \A d \in DOMAIN dirs : Completed(d) =>
        LET scraped == ReturnedImages(d)
            pastes == dirs[d]["all.png"].pastes
        IN  /\ Len(pastes) = Len(scraped)
            /\ \A k \in 1..Len(scraped) :
                  /\ pastes[k].image = scraped[k]
                  /\ pastes[k].top = HeightOfFirst(scraped, k - 1) + 100 * (k - 1)
                  /\ pastes[k].left = (Widest(scraped) - scraped[k].width) \div 2

\* ---------------------------------------------------------------------- C5
\* C5: the composite canvas of a completed location is as wide as the widest
\* of its N source images and sum(heights) + 100 * N high, N being the number
\* of images scraped for the location.
C5_CanvasSize ==
    \A d \in DOMAIN dirs : Completed(d) =>
        LET source == SourceImages(d)
            N == Len(hist[d].returned)
            canvas == dirs[d]["all.png"]
        IN  /\ N >= 1
            /\ \A k \in 1..N : source[k].width <= canvas.width
            /\ \E k \in 1..N : source[k].width = canvas.width
            /\ canvas.height = HeightOfFirst(source, N) + 100 * N

\* Two images of different widths and heights were composed
C5_Witness ==
    \E d \in DOMAIN dirs :
        /\ Completed(d)
        /\ Len(hist[d].returned) = 2
        /\ SourceImages(d)[1].width < SourceImages(d)[2].width
        /\ SourceImages(d)[1].height > SourceImages(d)[2].height
        /\ dirs[d]["all.png"].height = 203

\* ---------------------------------------------------------------------- C7
\* C7: with a missing or malformed configuration (unreadable, not YAML, an
\* entry without name or urls) the run navigates nowhere and writes no image.
C7_BadConfigNoScraping ==
    (error \in ConfigErrors \/ Malformed(locations)) =>
        /\ navigated = << >>
        /\ \A d \in DOMAIN dirs : \A f \in DOMAIN dirs[d] : dirs[d][f].run # run

\* ---------------------------------------------------------------------- C6
\* The state an extractor failure leaves: the run is over, the failing URL is
\* the last one navigated to, the location has no all.png, the files written
\* for its earlier URLs and the directories of the earlier locations are there.
C6_AbortState ==
    error \in ExtractorErrors =>
        /\ pc = "aborted"
        /\ "all.png" \notin DOMAIN dirs[locations[i].name]
        /\ navigated # << >>
        /\ navigated[Len(navigated)].loc = i
        /\ navigated[Len(navigated)].url = j
        /\ \A n \in 1..Len(navigated) :
              \/ navigated[n].loc < i
              \/ navigated[n].loc = i /\ navigated[n].url <= j
        /\ \A k \in 1..(i - 1) : Completed(locations[k].name)
        /\ \A k \in 1..Len(hist[locations[i].name].returned) :
              hist[locations[i].name].returned[k].file \in DOMAIN dirs[locations[i].name]

\* The failing step writes and deletes nothing, and the only step after it is
\* the start of another process, which leaves the files as they are too.
C6_AbortStep ==
    /\ (error' \in ExtractorErrors /\ error \notin ExtractorErrors) => dirs' = dirs
    /\ error \in ExtractorErrors => (pc' = "start" /\ run' = run + 1 /\ dirs' = dirs)

\* C6: an extractor failure on URL k of location L is caught nowhere and ends
\* the run: no later URL or location is processed, L gets no all.png, and the
\* files written before it stay in place.
C6_ExtractorFailureAborts == []C6_AbortState /\ [][C6_AbortStep]_vars

\* The second URL of the second location failed, after a file of that location
\* and the whole first location were written, with a URL left unprocessed
C6_Witness ==
    /\ pc = "aborted"
    /\ error \in ExtractorErrors
    /\ i = 2
    /\ j = 2
    /\ Len(locations[i].urls) = 3
    /\ DOMAIN dirs[locations[2].name] = {"shmu_aladin.png"}
    /\ DOMAIN dirs[locations[1].name] = {"yr.png", "all.png"}

\* ---------------------------------------------------------------------- C8
\* C8: once a run has reached location processing, every directory and file
\* under ./weather was created by that run, whatever the earlier runs left.
C8_OnlyLatestRun ==
    ReachedProcessing =>
        \A d \in DOMAIN dirs :
            /\ ThisRun(d)
            /\ \A f \in DOMAIN dirs[d] : dirs[d][f].run = run

\* A later run deleted a directory an earlier run left, did not make it again
\* and wrote its own files
C8_Witness ==
    /\ run > 1
    /\ ReachedProcessing
    /\ removed \ DOMAIN dirs # {}
    /\ \E d \in DOMAIN dirs : DOMAIN dirs[d] # {}

\* ---------------------------------------------------------------------- C9
ExpectedSite(url) ==
    CASE Contains(url, "meteoblue.com") -> "meteoblue"
      [] ~ Contains(url, "meteoblue.com") /\ Contains(url, "yr.no") -> "yr"
      [] ~ Contains(url, "meteoblue.com") /\ ~ Contains(url, "yr.no")
            /\ Contains(url, "shmu.sk") -> "shmu"
      [] OTHER -> "unknown"

ExpectedFile(site, url) ==
    CASE site = "meteoblue" -> "meteoblue.png"
      [] site = "yr" -> "yr.png"
      [] site = "shmu" /\ Contains(url, "mgram10") -> "shmu_ecmwf.png"
      [] site = "shmu" /\ ~ Contains(url, "mgram10") -> "shmu_aladin.png"

\* C9: each URL goes to one extractor, chosen by substring with precedence
\* meteoblue.com, yr.no, shmu.sk; the file saved for it is meteoblue.png,
\* yr.png, or for shmu.sk shmu_ecmwf.png with 'mgram10' in the URL and
\* shmu_aladin.png without; 'mgram10' matters for shmu.sk URLs only.
C9_DispatchAndFileName ==
    ReachedProcessing =>
        /\ \A n \in 1..Len(navigated) :
              /\ navigated[n].site =
                     ExpectedSite(locations[navigated[n].loc].urls[navigated[n].url])
              /\ \A m \in 1..Len(navigated) :
                     (navigated[m].loc = navigated[n].loc
                        /\ navigated[m].url = navigated[n].url) => m = n
        /\ \A d \in DOMAIN dirs : ThisRun(d) =>
              \A k \in 1..Len(hist[d].returned) :
                  LET r == hist[d].returned[k]
                      url == UrlsOf(d)[r.url]
                  IN  /\ \E n \in 1..Len(navigated) :
                            /\ navigated[n].loc = hist[d].loc
                            /\ navigated[n].url = r.url
                      /\ r.file = ExpectedFile(ExpectedSite(url), url)
                      /\ r.file \in DOMAIN dirs[d]

\* A URL holding both yr.no and meteoblue.com went to the meteoblue extractor,
\* and yr.no URLs holding mgram10 or shmu.sk were saved as yr.png
C9_Witness ==
    /\ pc = "done"
    /\ Len(locations) = 1
    /\ locations[1].urls = <<U_mixed, U_yr_mgram, U_shmu_yr>>
    /\ navigated[1].site = "meteoblue"
    /\ navigated[2].site = "yr"
    /\ DOMAIN dirs[locations[1].name] = {"meteoblue.png", "yr.png", "all.png"}

\* --------------------------------------------------------------------- C10
LoadedClasses == {"image_lazyload loaded"}

\* The wait is left for the fetch only with the class seen, and lasts at most
\* one poll past the timeout
C10_WaitState ==
    /\ pc = "mb_fetch" => mb.seen \in LoadedClasses
    /\ pc = "mb_wait" => mb.elapsed <= WaitTicks

\* urlopen is called only from the state a successful poll left; a timeout is
\* raised only by the wait, after the bound, without a fetch or a file
C10_WaitStep ==
    /\ Len(fetched') > Len(fetched) =>
          /\ pc = "mb_fetch"
          /\ mb.seen \in LoadedClasses
          /\ fetched' = Append(fetched, [loc |-> i, url |-> j, cookie |-> mb.cookie])
          /\ mb.cookie \in {"absent", "clicked"}
    /\ (error' = "TimeoutException" /\ error # "TimeoutException") =>
          /\ pc = "mb_wait"
          /\ pc' = "aborted"
          /\ mb'.seen \notin LoadedClasses
          /\ mb'.elapsed > WaitTicks
          /\ fetched' = fetched
          /\ dirs' = dirs
    /\ (pc = "mb_wait" /\ mb'.seen \notin LoadedClasses /\ mb.elapsed = WaitTicks) =>
          error' = "TimeoutException"

\* C10: the meteoblue image is fetched only after a poll saw the 'loaded'
\* class on the image_lazyload element, with or without the cookie element;
\* when no poll sees it within the 10 seconds, the extractor raises a timeout
\* without a fetch and without a file for the URL.
C10_FetchOnlyAfterLoaded == []C10_WaitState /\ [][C10_WaitStep]_vars

\* An image was fetched and saved on a page without the cookie element
C10_Witness ==
    /\ \E n \in 1..Len(fetched) : fetched[n].cookie = "absent"
    /\ \E d \in DOMAIN dirs : ThisRun(d) /\ "meteoblue.png" \in DOMAIN dirs[d]

====
